---- MODULE Spec2Model ----
(***************************************************************************)
(* The wallet ledger of src/src/wallet/wallet.service.ts: WalletService    *)
(* with its three in-memory maps, driven by the WalletController.          *)
(*                                                                         *)
(* Balances and amounts are JavaScript numbers.  They are modelled as the  *)
(* IEEE-754 double values the arithmetic of the service produces: a number *)
(* is a sign and a fixed-point magnitude, and every arithmetic result is   *)
(* rounded to 53 significant bits, ties to even.                           *)
(***************************************************************************)
EXTENDS Integers, Sequences, FiniteSets, TLC

(***************************************************************************)
(* Numbers.  A magnitude is NLimbs limbs of LimbBits bits, least           *)
(* significant first; the last limb is the integer part and the FracLimbs  *)
(* limbs below it are the fraction, so one unit of the lowest limb is      *)
(* 2^-(LimbBits*FracLimbs).  Every double the model reaches is a multiple  *)
(* of that unit: quotients by 100 of nonzero balances are at least 2^-59   *)
(* and so end at bit 2^-112 or above.                                      *)
(***************************************************************************)
LimbBits == 20
Base == 2^LimbBits
FracLimbs == 6
NLimbs == FracLimbs + 1
Limbs == 1..NLimbs

\* Significant bits of a double.
Precision == 53

MagZero == [i \in Limbs |-> 0]
MagInt(n) == [i \in Limbs |-> IF i = FracLimbs + 1 THEN n ELSE 0]
MagPow2(k) ==
  [i \in Limbs |-> IF i = (k \div LimbBits) + 1 THEN 2^(k % LimbBits) ELSE 0]

RECURSIVE MagCmpFrom(_, _, _)
MagCmpFrom(x, y, i) ==
  IF i = 0 THEN 0
  ELSE IF x[i] > y[i] THEN 1
  ELSE IF x[i] < y[i] THEN -1
  ELSE MagCmpFrom(x, y, i - 1)

\* -1, 0 or 1 as x is below, equal to or above y.
MagCmp(x, y) == MagCmpFrom(x, y, NLimbs)

RECURSIVE MagAddFrom(_, _, _, _)
MagAddFrom(x, y, i, c) ==
  IF i > NLimbs THEN <<>>
  ELSE LET s == x[i] + y[i] + c
       IN  <<s % Base>> \o MagAddFrom(x, y, i + 1, s \div Base)

MagAdd(x, y) == MagAddFrom(x, y, 1, 0)

RECURSIVE MagSubFrom(_, _, _, _)
MagSubFrom(x, y, i, b) ==
  IF i > NLimbs THEN <<>>
  ELSE LET s == x[i] - y[i] - b
       IN  <<s % Base>> \o MagSubFrom(x, y, i + 1, IF s < 0 THEN 1 ELSE 0)

\* x - y for x >= y.
MagSub(x, y) == MagSubFrom(x, y, 1, 0)

RECURSIVE MagMulFrom(_, _, _, _)
MagMulFrom(x, k, i, c) ==
  IF i > NLimbs THEN <<>>
  ELSE LET s == x[i] * k + c
       IN  <<s % Base>> \o MagMulFrom(x, k, i + 1, s \div Base)

\* x * k for a small natural k.
MagMul(x, k) == MagMulFrom(x, k, 1, 0)

RECURSIVE MagDivFrom(_, _, _, _)
MagDivFrom(x, k, i, r) ==
  IF i = 0 THEN <<>>
  ELSE LET cur == r * Base + x[i]
       IN  MagDivFrom(x, k, i - 1, cur % k) \o <<cur \div k>>

\* The quotient of x by a small natural k, truncated to the lowest limb.
MagDiv(x, k) == MagDivFrom(x, k, NLimbs, 0)

RECURSIVE MagRemFrom(_, _, _, _)
MagRemFrom(x, k, i, r) ==
  IF i = 0 THEN r ELSE MagRemFrom(x, k, i - 1, (r * Base + x[i]) % k)

\* What MagDiv(x, k) leaves, in units of the lowest limb.
MagRem(x, k) == MagRemFrom(x, k, NLimbs, 0)

RECURSIVE BitLen(_)
BitLen(n) == IF n = 0 THEN 0 ELSE 1 + BitLen(n \div 2)

RECURSIVE MagBitsFrom(_, _)
MagBitsFrom(x, i) ==
  IF i = 0 THEN 0
  ELSE IF x[i] # 0 THEN (i - 1) * LimbBits + BitLen(x[i])
  ELSE MagBitsFrom(x, i - 1)

\* The number of bits of x from its lowest limb up to its leading one.
MagBits(x) == MagBitsFrom(x, NLimbs)

\* x modulo 2^k.
MagTail(x, k) ==
  [i \in Limbs |->
     IF i < (k \div LimbBits) + 1 THEN x[i]
     ELSE IF i = (k \div LimbBits) + 1 THEN x[i] % (2^(k % LimbBits))
     ELSE 0]

\* Bit k of x.
MagBit(x, k) == (x[(k \div LimbBits) + 1] \div (2^(k % LimbBits))) % 2

\* x rounded to Precision significant bits, to nearest, ties to even; sticky
\* says that the exact value lies strictly above x (a division's remainder).
RoundNearestEven(x, sticky) ==
  IF MagBits(x) <= Precision THEN x
  ELSE LET k     == MagBits(x) - Precision
           tail  == MagTail(x, k)
           trunc == MagSub(x, tail)
           cmp   == MagCmp(tail, MagPow2(k - 1))
           up    == cmp = 1 \/ (cmp = 0 /\ (sticky \/ MagBit(x, k) = 1))
       IN  IF up THEN MagAdd(trunc, MagPow2(k)) ELSE trunc

Num(neg, mag) == [neg |-> neg /\ mag # MagZero, mag |-> mag]
Zero == Num(FALSE, MagZero)
IntNum(n) == Num(FALSE, MagInt(n))
Neg(a) == Num(~a.neg, a.mag)

\* a + b as a real number, not rounded.
ExactAdd(a, b) ==
  IF a.neg = b.neg THEN Num(a.neg, MagAdd(a.mag, b.mag))
  ELSE IF MagCmp(a.mag, b.mag) >= 0 THEN Num(a.neg, MagSub(a.mag, b.mag))
  ELSE Num(b.neg, MagSub(b.mag, a.mag))

Round(a, sticky) == Num(a.neg, RoundNearestEven(a.mag, sticky))

\* The operators of JavaScript's number: +, -, * and / by a small integer, <.
NumAdd(a, b) == Round(ExactAdd(a, b), FALSE)
NumSub(a, b) == Round(ExactAdd(a, Neg(b)), FALSE)
NumMul(a, k) == Round(Num(a.neg, MagMul(a.mag, k)), FALSE)
NumDiv(a, k) == Round(Num(a.neg, MagDiv(a.mag, k)), MagRem(a.mag, k) # 0)
NumLess(a, b) ==
  IF a.neg # b.neg THEN a.neg
  ELSE IF a.neg THEN MagCmp(a.mag, b.mag) = 1
  ELSE MagCmp(a.mag, b.mag) = -1

\* The number a request body's decimal literal n/100 denotes: the double
\* nearest to it.
Decimal(n) == NumDiv(IntNum(n), 100)

\* The amounts of the request bodies, by their literal in hundredths: 0.03,
\* 0.04, 0.07 and 1.00.
Literals == {3, 4, 7, 100}
Amount == [n \in Literals |-> Decimal(n)]

(***************************************************************************)
(* State.                                                                  *)
(***************************************************************************)
VARIABLES
  wallets,             \* WalletService.wallets: wallet id -> Wallet
  transactionHistory,  \* WalletService.transactionHistory: wallet id -> Transaction[]
  idempotentStore,     \* WalletService.idempotentStore: key -> IdempotentResponse
  nextUuid,            \* kind -> how many identifiers uuid() has made for it
  request,             \* <<the call the controller is making>>, or <<>>
  response,            \* <<what that call threw or returned>>, or <<>>
  logged,              \* the lines that call wrote to the log
  before,              \* <<the three maps as that call found them>>, or <<>>
  firstResult,         \* key -> the first call answered under it, and its result
  failedUnder,         \* the keys under which a call has thrown
  running              \* the calls that have begun and not returned, each
                       \* with the statement it is at

vars ==
  <<wallets, transactionHistory, idempotentStore, nextUuid, request, response,
    logged, before, firstResult, failedUnder, running>>

\* A Map with no entries, Map.has, and the Map after Map.set(k, v).
EmptyMap == <<>>
Has(m, k) == k \in DOMAIN m
Put(m, k, v) == [x \in DOMAIN m \cup {k} |-> IF x = k THEN v ELSE m[x]]

\* enum Currency.
Currency == {"USD", "NGN", "GBP"}

\* An optional value is <<>> when it is undefined and <<v>> when it is v.
Undefined == <<>>
Some(v) == <<v>>

\* A truthiness that takes every string, the empty one too, for truthy.
TruthyIfDefined(opt) == opt # Undefined

\* JavaScript's truthiness of an optional string: undefined and "" are falsy.
Truthy(opt) == opt # Undefined /\ opt[1] # ""

\* A uuid() that returns the identifiers of earlier calls again.
uuidAgain(kind, k) == <<kind, k>>

\* uuid(): an identifier no earlier call returned.  The model names an
\* identifier by what it is made for and its rank among those: uuid(kind, k)
\* is the k-th one the current call makes for kind, and Issued(made) is
\* nextUuid after the call has made made[kind] of each kind.
uuid(kind, k) == <<kind, nextUuid[kind] + k>>
Issued(made) == [kind \in DOMAIN nextUuid |-> nextUuid[kind] + made[kind]]

\* An identifier uuid() never returns.
UnknownId == <<"wallet", 0>>

\* An exception of @nestjs/common with its message.
Exception(class, message) == [exception |-> class, message |-> message]
Threw(e) == Some([threw |-> Some(e), returned |-> Undefined])
Returned(v) == Some([threw |-> Undefined, returned |-> Some(v)])

\* The places of the records: <<wallet id, index in its history>>.
Records(history) ==
  UNION {{<<w, i>> : i \in 1..Len(history[w])} : w \in DOMAIN history}

\* The fundWallet and transferFunds calls that have taken effect: each left
\* one FUND or one TRANSFER_OUT record.
Mutations ==
  Cardinality({p \in Records(transactionHistory) :
                 transactionHistory[p[1]][p[2]].action # "TRANSFER_IN"})

Init ==
  /\ wallets = EmptyMap
  /\ transactionHistory = EmptyMap
  /\ idempotentStore = EmptyMap
  /\ nextUuid = [wallet |-> 0, transaction |-> 0, transferGroup |-> 0]
  /\ request = Undefined
  /\ response = Undefined
  /\ logged = <<>>
  /\ before = Undefined
  /\ firstResult = EmptyMap
  /\ failedUnder = {}
  /\ running = <<>>

(***************************************************************************)
(* Calls.  WalletController takes one request at a time, calls the service *)
(* with the request's arguments and sends back what the call returned or   *)
(* threw.  request, response and logged hold the call in hand and its      *)
(* outcome until the response has gone out, and before holds the maps as   *)
(* they were when the call came in.  The caller keeps, for each key it has *)
(* sent, the first result it got under it and whether a call under it      *)
(* failed.  in is what a specification draws the arguments from, with its  *)
(* bounds: how many wallets are created and how many fundWallet and        *)
(* transferFunds calls take effect.                                        *)
(***************************************************************************)
Idle == request = Undefined

WalletIds(in) == DOMAIN wallets \cup in.unknownIds

\* A call that comes in whatever call is in hand.
CallsAnytime(call) ==
  /\ request' = Some(call)
  /\ before' = Some([wallets            |-> wallets,
                     transactionHistory |-> transactionHistory,
                     idempotentStore    |-> idempotentStore])
  /\ UNCHANGED <<firstResult, failedUnder>>

\* A call that comes in also while a call that has begun has not returned.
CallsWhileRunning(call) ==
  /\ Idle \/ running # <<>>
  /\ request' = Some(call)
  /\ before' = Some([wallets            |-> wallets,
                     transactionHistory |-> transactionHistory,
                     idempotentStore    |-> idempotentStore])
  /\ UNCHANGED <<firstResult, failedUnder>>

\* The call comes in.
Calls(call) ==
  /\ Idle
  /\ request' = Some(call)
  /\ before' = Some([wallets            |-> wallets,
                     transactionHistory |-> transactionHistory,
                     idempotentStore    |-> idempotentStore])
  /\ UNCHANGED <<firstResult, failedUnder>>

\* The key the call in hand was sent under, if it takes one.
KeySent ==
  IF request[1].op \in {"fundWallet", "transferFunds"}
  THEN request[1].idempotencyKey
  ELSE Undefined

\* The response goes out; the next request can come in.
respond ==
  /\ ~Idle
  /\ response # Undefined
  /\ firstResult' =
       IF /\ Truthy(KeySent)
          /\ response[1].returned # Undefined
          /\ ~Has(firstResult, KeySent[1])
       THEN Put(firstResult, KeySent[1],
                [request |-> request[1], result |-> response[1].returned[1]])
       ELSE firstResult
  /\ failedUnder' =
       IF Truthy(KeySent) /\ response[1].threw # Undefined
       THEN failedUnder \cup {KeySent[1]}
       ELSE failedUnder
  /\ request' = Undefined
  /\ response' = Undefined
  /\ logged' = <<>>
  /\ before' = Undefined
  /\ UNCHANGED <<wallets, transactionHistory, idempotentStore, nextUuid, running>>

\* A throw that first stores the exception under the key of the call.
ThrowsStored(e) ==
  /\ response' = Threw(e)
  /\ logged' = <<>>
  /\ idempotentStore' =
       IF /\ request'[1].op \in {"fundWallet", "transferFunds"}
          /\ Truthy(request'[1].idempotencyKey)
       THEN Put(idempotentStore, request'[1].idempotencyKey[1], [body |-> e])
       ELSE idempotentStore
  /\ UNCHANGED <<wallets, transactionHistory, nextUuid>>

\* A call that ends by throwing e: it has written nothing.
Throws(e) ==
  /\ response' = Threw(e)
  /\ logged' = <<>>
  /\ UNCHANGED <<wallets, transactionHistory, idempotentStore, nextUuid>>

\* A call that ends by returning the body checkIdempotency found.
ReturnsCached(idempotencyKey, cachedResult) ==
  /\ response' = Returned(cachedResult)
  /\ logged' = <<<<"[Idempotency] Returning cached response for key: ",
                   idempotencyKey[1]>>>>
  /\ UNCHANGED <<wallets, transactionHistory, idempotentStore, nextUuid>>

(***************************************************************************)
(* WalletService.  The createdAt and timestamp fields, which no operation  *)
(* reads, are left out of the wallets and of the records.                  *)
(***************************************************************************)
\* A createWallet that always opens the wallet in the default currency.
createWalletDefault(createWalletDto, in) ==
  /\ Cardinality(DOMAIN wallets) < in.maxWallets
  /\ Calls([op |-> "createWallet", createWalletDto |-> createWalletDto])
  /\ LET newWallet ==
           [id |-> uuid("wallet", 1), balance |-> Zero, currency |-> "USD"]
     IN  /\ wallets' = Put(wallets, newWallet.id, newWallet)
         /\ transactionHistory' = Put(transactionHistory, newWallet.id, <<>>)
         /\ nextUuid' =
              Issued([wallet |-> 1, transaction |-> 0, transferGroup |-> 0])
         /\ logged' = <<<<"Created new wallet with ID: ", newWallet.id>>>>
         /\ response' = Returned(newWallet)
  /\ UNCHANGED <<idempotentStore, running>>

createWallet(createWalletDto, in) ==
  /\ Cardinality(DOMAIN wallets) < in.maxWallets
  /\ Calls([op |-> "createWallet", createWalletDto |-> createWalletDto])
  /\ LET newWallet ==
           [id       |-> uuid("wallet", 1),
            balance  |-> Zero,
            currency |-> IF Truthy(createWalletDto.currency)
                         THEN createWalletDto.currency[1]
                         ELSE "USD"]
     IN  /\ wallets' = Put(wallets, newWallet.id, newWallet)
         /\ transactionHistory' = Put(transactionHistory, newWallet.id, <<>>)
         /\ nextUuid' =
              Issued([wallet |-> 1, transaction |-> 0, transferGroup |-> 0])
         /\ logged' = <<<<"Created new wallet with ID: ", newWallet.id>>>>
         /\ response' = Returned(newWallet)
  /\ UNCHANGED <<idempotentStore, running>>

\* A checkIdempotency that finds nothing.
checkIdempotencyMiss(idempotencyKey) == Undefined

\* A checkIdempotency whose cache is keyed by key and operation: it finds
\* an entry only for the operation that stored it.
checkIdempotencyPerOperation(idempotencyKey) ==
  IF /\ Truthy(idempotencyKey)
     /\ Has(idempotentStore, idempotencyKey[1])
     /\ ("sender" \in DOMAIN idempotentStore[idempotencyKey[1]].body)
          <=> (request'[1].op = "transferFunds")
  THEN Some(idempotentStore[idempotencyKey[1]].body)
  ELSE Undefined

\* A checkIdempotency that returns the cache's entry, not the body in it.
checkIdempotencyEntry(idempotencyKey) ==
  IF Truthy(idempotencyKey) /\ Has(idempotentStore, idempotencyKey[1])
  THEN Some(idempotentStore[idempotencyKey[1]])
  ELSE Undefined

\* checkIdempotency: <<the cached body>>, or <<>> for undefined.
checkIdempotency(idempotencyKey) ==
  IF Truthy(idempotencyKey) /\ Has(idempotentStore, idempotencyKey[1])
  THEN Some(idempotentStore[idempotencyKey[1]].body)
  ELSE Undefined

\* A storeIdempotencyResult that stores the result of a call without a key
\* under the empty key.
storeUnderAnyKey(idempotencyKey, result) ==
  Put(idempotentStore,
      IF Truthy(idempotencyKey) THEN idempotencyKey[1] ELSE "",
      [body |-> result])

\* A storeIdempotencyResult that stores nothing.
storeNothing(idempotencyKey, result) == idempotentStore

\* storeIdempotencyResult: the idempotentStore it leaves.
storeIdempotencyResult(idempotencyKey, result) ==
  IF Truthy(idempotencyKey)
  THEN Put(idempotentStore, idempotencyKey[1], [body |-> result])
  ELSE idempotentStore

\* fundWallet's record.
transaction(walletId, amount) ==
  [id       |-> uuid("transaction", 1),
   walletId |-> walletId,
   action   |-> "FUND",
   amount   |-> amount]

fundWallet(walletId, fundWalletDto, idempotencyKey, in) ==
  /\ Calls([op             |-> "fundWallet",
            walletId       |-> walletId,
            fundWalletDto  |-> fundWalletDto,
            idempotencyKey |-> idempotencyKey])
  /\ UNCHANGED running
  /\ LET cachedResult == checkIdempotency(idempotencyKey)
         amount       == fundWalletDto.amount
     IN  IF cachedResult # Undefined
         THEN ReturnsCached(idempotencyKey, cachedResult[1])
         ELSE IF ~Has(wallets, walletId)
         THEN Throws(Exception("NotFoundException",
                               <<"Wallet with ID ", walletId, " not found.">>))
         ELSE LET amountInCents == NumMul(amount, 100)
                  wallet ==
                    [wallets[walletId] EXCEPT
                       !.balance = NumAdd(@, amountInCents)]
                  result ==
                    [message  |-> "Transaction successful",
                     id       |-> wallet.id,
                     currency |-> wallet.currency,
                     balance  |-> NumDiv(wallet.balance, 100)]
              IN  /\ Mutations < in.maxMutations
                  /\ wallets' = [wallets EXCEPT ![walletId] = wallet]
                  /\ transactionHistory' =
                       [transactionHistory EXCEPT
                          ![walletId] = Append(@, transaction(walletId, amount))]
                  /\ nextUuid' =
                       Issued([wallet |-> 0, transaction |-> 1,
                               transferGroup |-> 0])
                  /\ logged' = <<<<"Funded wallet ID: ", walletId,
                                   " with amount: ", amount, " cents">>>>
                  /\ idempotentStore' =
                       storeIdempotencyResult(idempotencyKey, result)
                  /\ response' = Returned(result)

\* The validation checks with the balance check as the stored balance, in
\* minor units, against the amount.
validationChecksUnconverted(senderWalletId, receiverWalletId, amount) ==
  IF senderWalletId = receiverWalletId
  THEN Some(Exception("ConflictException",
                      <<"Cannot transfer funds to the same wallet.">>))
  ELSE IF ~Has(wallets, senderWalletId)
  THEN Some(Exception("NotFoundException", <<"Sender wallet not found.">>))
  ELSE IF ~Has(wallets, receiverWalletId)
  THEN Some(Exception("NotFoundException", <<"Receiver wallet not found.">>))
  ELSE IF wallets[senderWalletId].currency # wallets[receiverWalletId].currency
  THEN Some(Exception("BadRequestException",
                      <<"Transfer between different currencies is not supported.">>))
  ELSE IF NumLess(wallets[senderWalletId].balance, amount)
  THEN Some(Exception("BadRequestException",
                      <<"Insufficient balance in sender wallet.">>))
  ELSE Undefined

\* The validation checks with the balance check ahead of the currency check.
validationChecksBalanceFirst(senderWalletId, receiverWalletId, amount) ==
  IF senderWalletId = receiverWalletId
  THEN Some(Exception("ConflictException",
                      <<"Cannot transfer funds to the same wallet.">>))
  ELSE IF ~Has(wallets, senderWalletId)
  THEN Some(Exception("NotFoundException", <<"Sender wallet not found.">>))
  ELSE IF ~Has(wallets, receiverWalletId)
  THEN Some(Exception("NotFoundException", <<"Receiver wallet not found.">>))
  ELSE IF NumLess(NumDiv(wallets[senderWalletId].balance, 100), amount)
  THEN Some(Exception("BadRequestException",
                      <<"Insufficient balance in sender wallet.">>))
  ELSE IF wallets[senderWalletId].currency # wallets[receiverWalletId].currency
  THEN Some(Exception("BadRequestException",
                      <<"Transfer between different currencies is not supported.">>))
  ELSE Undefined

\* The validation checks with the receiver looked up ahead of the sender.
validationChecksReceiverFirst(senderWalletId, receiverWalletId, amount) ==
  IF senderWalletId = receiverWalletId
  THEN Some(Exception("ConflictException",
                      <<"Cannot transfer funds to the same wallet.">>))
  ELSE IF ~Has(wallets, receiverWalletId)
  THEN Some(Exception("NotFoundException", <<"Receiver wallet not found.">>))
  ELSE IF ~Has(wallets, senderWalletId)
  THEN Some(Exception("NotFoundException", <<"Sender wallet not found.">>))
  ELSE IF wallets[senderWalletId].currency # wallets[receiverWalletId].currency
  THEN Some(Exception("BadRequestException",
                      <<"Transfer between different currencies is not supported.">>))
  ELSE IF NumLess(NumDiv(wallets[senderWalletId].balance, 100), amount)
  THEN Some(Exception("BadRequestException",
                      <<"Insufficient balance in sender wallet.">>))
  ELSE Undefined

\* The validation checks with the lookups ahead of the self-transfer check.
validationChecksLookupFirst(senderWalletId, receiverWalletId, amount) ==
  IF ~Has(wallets, senderWalletId)
  THEN Some(Exception("NotFoundException", <<"Sender wallet not found.">>))
  ELSE IF ~Has(wallets, receiverWalletId)
  THEN Some(Exception("NotFoundException", <<"Receiver wallet not found.">>))
  ELSE IF senderWalletId = receiverWalletId
  THEN Some(Exception("ConflictException",
                      <<"Cannot transfer funds to the same wallet.">>))
  ELSE IF wallets[senderWalletId].currency # wallets[receiverWalletId].currency
  THEN Some(Exception("BadRequestException",
                      <<"Transfer between different currencies is not supported.">>))
  ELSE IF NumLess(NumDiv(wallets[senderWalletId].balance, 100), amount)
  THEN Some(Exception("BadRequestException",
                      <<"Insufficient balance in sender wallet.">>))
  ELSE Undefined

\* transferFunds' validation checks: <<the exception the first failing check
\* throws>>, or <<>> when all of them pass.
validationChecks(senderWalletId, receiverWalletId, amount) ==
  IF senderWalletId = receiverWalletId
  THEN Some(Exception("ConflictException",
                      <<"Cannot transfer funds to the same wallet.">>))
  ELSE IF ~Has(wallets, senderWalletId)
  THEN Some(Exception("NotFoundException", <<"Sender wallet not found.">>))
  ELSE IF ~Has(wallets, receiverWalletId)
  THEN Some(Exception("NotFoundException", <<"Receiver wallet not found.">>))
  ELSE IF wallets[senderWalletId].currency # wallets[receiverWalletId].currency
  THEN Some(Exception("BadRequestException",
                      <<"Transfer between different currencies is not supported.">>))
  ELSE IF NumLess(NumDiv(wallets[senderWalletId].balance, 100), amount)
  THEN Some(Exception("BadRequestException",
                      <<"Insufficient balance in sender wallet.">>))
  ELSE Undefined

\* A receiverTx that takes a transfer-group identifier of its own.
receiverTxOwnGroup(senderWalletId, receiverWalletId, amount, transferGroupId) ==
  [id                   |-> uuid("transaction", 2),
   walletId             |-> receiverWalletId,
   action               |-> "TRANSFER_IN",
   amount               |-> amount,
   counterpartyWalletId |-> senderWalletId,
   transferGroupId      |-> uuid("transferGroup", 2)]

\* transferFunds' two records.
senderTx(senderWalletId, receiverWalletId, amount, transferGroupId) ==
  [id                   |-> uuid("transaction", 1),
   walletId             |-> senderWalletId,
   action               |-> "TRANSFER_OUT",
   amount               |-> amount,
   counterpartyWalletId |-> receiverWalletId,
   transferGroupId      |-> transferGroupId]

receiverTx(senderWalletId, receiverWalletId, amount, transferGroupId) ==
  [id                   |-> uuid("transaction", 2),
   walletId             |-> receiverWalletId,
   action               |-> "TRANSFER_IN",
   amount               |-> amount,
   counterpartyWalletId |-> senderWalletId,
   transferGroupId      |-> transferGroupId]

transferFunds(senderWalletId, transferFundsDto, idempotencyKey, in) ==
  /\ Calls([op               |-> "transferFunds",
            senderWalletId   |-> senderWalletId,
            transferFundsDto |-> transferFundsDto,
            idempotencyKey   |-> idempotencyKey])
  /\ UNCHANGED running
  /\ LET cachedResult     == checkIdempotency(idempotencyKey)
         receiverWalletId == transferFundsDto.receiverWalletId
         amount           == transferFundsDto.amount
         failed == validationChecks(senderWalletId, receiverWalletId, amount)
     IN  IF cachedResult # Undefined
         THEN ReturnsCached(idempotencyKey, cachedResult[1])
         ELSE IF failed # Undefined
         THEN Throws(failed[1])
         ELSE LET amountInCents == NumMul(amount, 100)
                  senderWallet ==
                    [wallets[senderWalletId] EXCEPT
                       !.balance = NumSub(@, amountInCents)]
                  receiverWallet ==
                    [wallets[receiverWalletId] EXCEPT
                       !.balance = NumAdd(@, amountInCents)]
                  transferGroupId == uuid("transferGroup", 1)
                  result ==
                    [message  |-> "Transaction successful",
                     sender   |-> [senderWallet EXCEPT
                                     !.balance = NumDiv(@, 100)],
                     receiver |-> [receiverWallet EXCEPT
                                     !.balance = NumDiv(@, 100)]]
              IN  /\ Mutations < in.maxMutations
                  /\ wallets' =
                       [wallets EXCEPT ![senderWalletId] = senderWallet,
                                       ![receiverWalletId] = receiverWallet]
                  /\ transactionHistory' =
                       [transactionHistory EXCEPT
                          ![senderWalletId] =
                            Append(@, senderTx(senderWalletId, receiverWalletId,
                                               amount, transferGroupId)),
                          ![receiverWalletId] =
                            Append(@, receiverTx(senderWalletId, receiverWalletId,
                                                 amount, transferGroupId))]
                  /\ nextUuid' =
                       Issued([wallet |-> 0, transaction |-> 2,
                               transferGroup |-> 1])
                  /\ logged' = <<<<"Transferred ", amount, " from wallet ID: ",
                                   senderWalletId, " to wallet ID: ",
                                   receiverWalletId>>>>
                  /\ idempotentStore' =
                       storeIdempotencyResult(idempotencyKey, result)
                  /\ response' = Returned(result)

\* A getWalletDetails that reports the balance as it is stored.
getWalletDetailsStored(walletId) ==
  /\ Calls([op |-> "getWalletDetails", walletId |-> walletId])
  /\ UNCHANGED running
  /\ IF ~Has(wallets, walletId)
     THEN Throws(Exception("NotFoundException",
                           <<"Wallet with ID ", walletId, " not found.">>))
     ELSE /\ response' =
               Returned([id                 |-> wallets[walletId].id,
                         currency           |-> wallets[walletId].currency,
                         balance            |-> wallets[walletId].balance,
                         transactionHistory |-> transactionHistory[walletId]])
          /\ logged' = <<<<"Fetched details for wallet: ", wallets[walletId]>>>>
          /\ UNCHANGED <<wallets, transactionHistory, idempotentStore,
                         nextUuid>>

getWalletDetails(walletId) ==
  /\ Calls([op |-> "getWalletDetails", walletId |-> walletId])
  /\ UNCHANGED running
  /\ IF ~Has(wallets, walletId)
     THEN Throws(Exception("NotFoundException",
                           <<"Wallet with ID ", walletId, " not found.">>))
     ELSE LET wallet  == wallets[walletId]
              history == IF Has(transactionHistory, walletId)
                         THEN transactionHistory[walletId]
                         ELSE <<>>
          IN  /\ response' =
                   Returned([id                 |-> wallet.id,
                             currency           |-> wallet.currency,
                             balance            |-> NumDiv(wallet.balance, 100),
                             transactionHistory |-> history])
              /\ logged' = <<<<"Fetched details for wallet: ", wallet>>>>
              /\ UNCHANGED <<wallets, transactionHistory, idempotentStore,
                             nextUuid>>

(***************************************************************************)
(* fundWallet and transferFunds statement by statement.  A call that has   *)
(* passed its checks is in running with the statement it is at, and each   *)
(* of its writes is a step of its own.  Neither method awaits anything, so *)
(* the controller has the call in hand from its first statement to its     *)
(* return.                                                                 *)
(***************************************************************************)
Remove(frames, i) == SubSeq(frames, 1, i - 1) \o SubSeq(frames, i + 1, Len(frames))

At(i, op, statement) ==
  /\ i \in 1..Len(running)
  /\ running[i].op = op
  /\ running[i].at = statement

Goes(i, statement) == running' = [running EXCEPT ![i].at = statement]

\* Lines 62-83: the gate, the lookup and amountInCents.
fundWalletBegins(walletId, fundWalletDto, idempotencyKey, in) ==
  /\ Calls([op             |-> "fundWallet",
            walletId       |-> walletId,
            fundWalletDto  |-> fundWalletDto,
            idempotencyKey |-> idempotencyKey])
  /\ LET cachedResult == checkIdempotency(idempotencyKey)
     IN  IF cachedResult # Undefined
         THEN ReturnsCached(idempotencyKey, cachedResult[1]) /\ UNCHANGED running
         ELSE IF ~Has(wallets, walletId)
         THEN /\ Throws(Exception("NotFoundException",
                                  <<"Wallet with ID ", walletId, " not found.">>))
              /\ UNCHANGED running
         ELSE /\ Mutations + Len(running) < in.maxMutations
              /\ running' = Append(running,
                                   [op             |-> "fundWallet",
                                    at             |-> "credit",
                                    walletId       |-> walletId,
                                    amount         |-> fundWalletDto.amount,
                                    idempotencyKey |-> idempotencyKey])
              /\ response' = Undefined
              /\ logged' = <<>>
              /\ UNCHANGED <<wallets, transactionHistory, idempotentStore,
                             nextUuid>>

\* Line 85.
fundWalletCredits(i) ==
  /\ At(i, "fundWallet", "credit")
  /\ wallets' = [wallets EXCEPT ![running[i].walletId].balance =
                                  NumAdd(@, NumMul(running[i].amount, 100))]
  /\ Goes(i, "record")
  /\ UNCHANGED <<transactionHistory, idempotentStore, nextUuid, request,
                 response, logged, before, firstResult, failedUnder>>

\* Lines 88-95.
fundWalletRecords(i) ==
  /\ At(i, "fundWallet", "record")
  /\ transactionHistory' =
       [transactionHistory EXCEPT
          ![running[i].walletId] =
            Append(@, transaction(running[i].walletId, running[i].amount))]
  /\ nextUuid' = Issued([wallet |-> 0, transaction |-> 1, transferGroup |-> 0])
  /\ Goes(i, "return")
  /\ UNCHANGED <<wallets, idempotentStore, request, response, logged, before,
                 firstResult, failedUnder>>

\* Lines 97-108.
fundWalletReturns(i) ==
  /\ At(i, "fundWallet", "return")
  /\ LET wallet == wallets[running[i].walletId]
         result ==
           [message  |-> "Transaction successful",
            id       |-> wallet.id,
            currency |-> wallet.currency,
            balance  |-> NumDiv(wallet.balance, 100)]
     IN  /\ logged' = <<<<"Funded wallet ID: ", running[i].walletId,
                          " with amount: ", running[i].amount, " cents">>>>
         /\ idempotentStore' =
              storeIdempotencyResult(running[i].idempotencyKey, result)
         /\ response' = Returned(result)
  /\ running' = Remove(running, i)
  /\ UNCHANGED <<wallets, transactionHistory, nextUuid, request, before,
                 firstResult, failedUnder>>

\* Lines 119-156: the gate, the validation checks and amountInCents.
transferFundsBegins(senderWalletId, transferFundsDto, idempotencyKey, in) ==
  /\ Calls([op               |-> "transferFunds",
            senderWalletId   |-> senderWalletId,
            transferFundsDto |-> transferFundsDto,
            idempotencyKey   |-> idempotencyKey])
  /\ LET cachedResult     == checkIdempotency(idempotencyKey)
         receiverWalletId == transferFundsDto.receiverWalletId
         amount           == transferFundsDto.amount
         failed == validationChecks(senderWalletId, receiverWalletId, amount)
     IN  IF cachedResult # Undefined
         THEN ReturnsCached(idempotencyKey, cachedResult[1]) /\ UNCHANGED running
         ELSE IF failed # Undefined
         THEN Throws(failed[1]) /\ UNCHANGED running
         ELSE /\ Mutations + Len(running) < in.maxMutations
              /\ running' = Append(running,
                                   [op               |-> "transferFunds",
                                    at               |-> "debit",
                                    senderWalletId   |-> senderWalletId,
                                    receiverWalletId |-> receiverWalletId,
                                    amount           |-> amount,
                                    idempotencyKey   |-> idempotencyKey,
                                    transferGroupId  |-> Undefined])
              /\ response' = Undefined
              /\ logged' = <<>>
              /\ UNCHANGED <<wallets, transactionHistory, idempotentStore,
                             nextUuid>>

\* Line 159.
transferFundsDebits(i) ==
  /\ At(i, "transferFunds", "debit")
  /\ wallets' = [wallets EXCEPT ![running[i].senderWalletId].balance =
                                  NumSub(@, NumMul(running[i].amount, 100))]
  /\ Goes(i, "credit")
  /\ UNCHANGED <<transactionHistory, idempotentStore, nextUuid, request,
                 response, logged, before, firstResult, failedUnder>>

\* Line 160.
transferFundsCredits(i) ==
  /\ At(i, "transferFunds", "credit")
  /\ wallets' = [wallets EXCEPT ![running[i].receiverWalletId].balance =
                                  NumAdd(@, NumMul(running[i].amount, 100))]
  /\ Goes(i, "senderTx")
  /\ UNCHANGED <<transactionHistory, idempotentStore, nextUuid, request,
                 response, logged, before, firstResult, failedUnder>>

\* Lines 163-174: transferGroupId and senderTx.
transferFundsRecordsSender(i) ==
  /\ At(i, "transferFunds", "senderTx")
  /\ LET transferGroupId == uuid("transferGroup", 1)
     IN  /\ transactionHistory' =
              [transactionHistory EXCEPT
                 ![running[i].senderWalletId] =
                   Append(@, senderTx(running[i].senderWalletId,
                                      running[i].receiverWalletId,
                                      running[i].amount, transferGroupId))]
         /\ running' = [running EXCEPT
                          ![i].at = "receiverTx",
                          ![i].transferGroupId = Some(transferGroupId)]
  /\ nextUuid' = Issued([wallet |-> 0, transaction |-> 1, transferGroup |-> 1])
  /\ UNCHANGED <<wallets, idempotentStore, request, response, logged, before,
                 firstResult, failedUnder>>

\* Lines 176-185: receiverTx, whose id is the next one uuid() makes.
transferFundsRecordsReceiver(i) ==
  /\ At(i, "transferFunds", "receiverTx")
  /\ transactionHistory' =
       [transactionHistory EXCEPT
          ![running[i].receiverWalletId] =
            Append(@, [receiverTx(running[i].senderWalletId,
                                  running[i].receiverWalletId,
                                  running[i].amount,
                                  running[i].transferGroupId[1])
                         EXCEPT !.id = uuid("transaction", 1)])]
  /\ nextUuid' = Issued([wallet |-> 0, transaction |-> 1, transferGroup |-> 0])
  /\ Goes(i, "return")
  /\ UNCHANGED <<wallets, idempotentStore, request, response, logged, before,
                 firstResult, failedUnder>>

\* Lines 187-205.
transferFundsReturns(i) ==
  /\ At(i, "transferFunds", "return")
  /\ LET senderWallet   == wallets[running[i].senderWalletId]
         receiverWallet == wallets[running[i].receiverWalletId]
         result ==
           [message  |-> "Transaction successful",
            sender   |-> [senderWallet EXCEPT !.balance = NumDiv(@, 100)],
            receiver |-> [receiverWallet EXCEPT !.balance = NumDiv(@, 100)]]
     IN  /\ logged' = <<<<"Transferred ", running[i].amount,
                          " from wallet ID: ", running[i].senderWalletId,
                          " to wallet ID: ", running[i].receiverWalletId>>>>
         /\ idempotentStore' =
              storeIdempotencyResult(running[i].idempotencyKey, result)
         /\ response' = Returned(result)
  /\ running' = Remove(running, i)
  /\ UNCHANGED <<wallets, transactionHistory, nextUuid, request, before,
                 firstResult, failedUnder>>

(***************************************************************************)
(* Specifications.                                                         *)
(***************************************************************************)
Next(in) ==
  \/ \E currency \in in.currencies :
       createWallet([currency |-> currency], in)
  \/ \E walletId \in WalletIds(in), n \in in.amounts, key \in in.keys :
       fundWallet(walletId, [amount |-> Amount[n]], key, in)
  \/ \E senderId \in WalletIds(in), receiverId \in WalletIds(in),
        n \in in.amounts, key \in in.keys :
       transferFunds(senderId,
                     [receiverWalletId |-> receiverId, amount |-> Amount[n]],
                     key, in)
  \/ \E walletId \in WalletIds(in) :
       getWalletDetails(walletId)
  \/ respond

\* Bounds of Spec.
MaxWallets == 3
MaxMutations == 2

\* Requests of every kind: amounts 0.07 and 1.00, with and without a key, in
\* two currencies, for wallets that exist and for one that does not.
Requests ==
  [amounts      |-> {7, 100},
   keys         |-> {Undefined, Some("k1")},
   currencies   |-> {Undefined, Some("NGN")},
   unknownIds   |-> {UnknownId},
   maxWallets   |-> MaxWallets,
   maxMutations |-> MaxMutations]

Spec == Init /\ [][Next(Requests)]_vars

\* Bounds of SpecCents.
MaxCentWallets == 2
MaxCentMutations == 3

\* Requests in one currency and without keys, for existing wallets, with the
\* amounts 0.03, 0.04 and 0.07.
CentRequests ==
  [amounts      |-> {3, 4, 7},
   keys         |-> {Undefined},
   currencies   |-> {Undefined},
   unknownIds   |-> {},
   maxWallets   |-> MaxCentWallets,
   maxMutations |-> MaxCentMutations]

SpecCents == Init /\ [][Next(CentRequests)]_vars

\* A second identifier uuid() never returns.
OtherUnknownId == <<"wallet", -1>>

\* Bounds of SpecOrder.
MaxOrderWallets == 2
MaxOrderMutations == 2

\* Transfers of every standing: between wallets of one currency and of two,
\* existing and not, with amounts within the balance and above it, without
\* keys.
OrderRequests ==
  [amounts      |-> {7, 100},
   keys         |-> {Undefined},
   currencies   |-> {Undefined, Some("NGN")},
   unknownIds   |-> {UnknownId, OtherUnknownId},
   maxWallets   |-> MaxOrderWallets,
   maxMutations |-> MaxOrderMutations]

SpecOrder == Init /\ [][Next(OrderRequests)]_vars

\* Bounds of SpecSteps.
MaxStepWallets == 2
MaxStepMutations == 3

\* Requests in one currency for existing wallets, with the amount 1.00, with
\* and without a key.
StepRequests ==
  [amounts      |-> {100},
   keys         |-> {Undefined, Some("k1")},
   currencies   |-> {Undefined},
   unknownIds   |-> {},
   maxWallets   |-> MaxStepWallets,
   maxMutations |-> MaxStepMutations]

\* The service with fundWallet and transferFunds taken statement by
\* statement.
NextSteps(in) ==
  \/ \E currency \in in.currencies :
       createWallet([currency |-> currency], in)
  \/ \E walletId \in WalletIds(in), n \in in.amounts, key \in in.keys :
       fundWalletBegins(walletId, [amount |-> Amount[n]], key, in)
  \/ \E senderId \in WalletIds(in), receiverId \in WalletIds(in),
        n \in in.amounts, key \in in.keys :
       transferFundsBegins(senderId,
                           [receiverWalletId |-> receiverId,
                            amount |-> Amount[n]],
                           key, in)
  \/ \E i \in 1..Len(running) : fundWalletCredits(i)
  \/ \E i \in 1..Len(running) : fundWalletRecords(i)
  \/ \E i \in 1..Len(running) : fundWalletReturns(i)
  \/ \E i \in 1..Len(running) : transferFundsDebits(i)
  \/ \E i \in 1..Len(running) : transferFundsCredits(i)
  \/ \E i \in 1..Len(running) : transferFundsRecordsSender(i)
  \/ \E i \in 1..Len(running) : transferFundsRecordsReceiver(i)
  \/ \E i \in 1..Len(running) : transferFundsReturns(i)
  \/ \E walletId \in WalletIds(in) :
       getWalletDetails(walletId)
  \/ respond

SpecSteps == Init /\ [][NextSteps(StepRequests)]_vars

\* Bounds of SpecEmptyKey.
MaxEmptyKeyWallets == 2
MaxEmptyKeyMutations == 3

\* Requests that all carry an Idempotency-Key header, empty or not.
EmptyKeyRequests ==
  [amounts      |-> {100},
   keys         |-> {Some(""), Some("k1")},
   currencies   |-> {Undefined},
   unknownIds   |-> {UnknownId},
   maxWallets   |-> MaxEmptyKeyWallets,
   maxMutations |-> MaxEmptyKeyMutations]

SpecEmptyKey == Init /\ [][Next(EmptyKeyRequests)]_vars

(***************************************************************************)
(* Properties.  They are stated of the states in which a call has been     *)
(* answered and its response has not yet gone out: request is the call,    *)
(* response its outcome, before the maps as the call found them, and the   *)
(* maps are as the call left them.                                         *)
(***************************************************************************)
Answered == request # Undefined /\ response # Undefined
Call == request[1]
Prior == before[1]
Failed == response[1].threw # Undefined
Succeeded == response[1].returned # Undefined
Error == response[1].threw[1]
Payload == response[1].returned[1]

Keyed == Call.op \in {"fundWallet", "transferFunds"}
FundCall == Call.op = "fundWallet"
TransferCall == Call.op = "transferFunds"
Sender == Call.senderWalletId
Receiver == Call.transferFundsDto.receiverWalletId
TransferAmount == Call.transferFundsDto.amount

\* The call was sent under a key that had a cached result when it came in.
GateHit ==
  /\ Keyed
  /\ Truthy(Call.idempotencyKey)
  /\ Has(Prior.idempotentStore, Call.idempotencyKey[1])

\* The call is the same operation with the same arguments under the same
\* key as an earlier call that succeeded.
Retry ==
  /\ Keyed
  /\ Truthy(Call.idempotencyKey)
  /\ Has(firstResult, Call.idempotencyKey[1])
  /\ firstResult[Call.idempotencyKey[1]].request = Call

Balances(ws) == [w \in DOMAIN ws |-> ws[w].balance]
Lengths(history) == [w \in DOMAIN history |-> Len(history[w])]

\* The call left the wallets, the histories and the cache as it found them.
StateUnchanged ==
  /\ wallets = Prior.wallets
  /\ transactionHistory = Prior.transactionHistory
  /\ idempotentStore = Prior.idempotentStore

\* C1: a fundWallet or transferFunds call that repeats, under the same key
\* and with the same arguments, an earlier call that succeeded returns a
\* payload equal to the one the earlier call returned, and changes no
\* balance and the length of no history.
C1_IdempotentRetry ==
  (Answered /\ Retry) =>
    /\ response = Returned(firstResult[Call.idempotencyKey[1]].result)
    /\ Balances(wallets) = Balances(Prior.wallets)
    /\ Lengths(transactionHistory) = Lengths(Prior.transactionHistory)

\* A transfer is repeated under its key and gets the first payload again.
C1_Witness ==
  /\ Answered
  /\ Retry
  /\ TransferCall
  /\ Succeeded
  /\ Payload = firstResult[Call.idempotencyKey[1]].result

\* C2: a fundWallet or transferFunds call under a key that already has a
\* cached result returns the cached payload and leaves wallets, histories
\* and cache as they were, whatever its other arguments: none of the
\* validation checks runs, so it throws nothing.
C2_GateComesFirst ==
  (Answered /\ GateHit) =>
    /\ response = Returned(Prior.idempotentStore[Call.idempotencyKey[1]].body)
    /\ StateUnchanged

\* A transfer from a wallet to itself, which the first validation check
\* would reject, is sent under a key with a cached result and gets that
\* result.
C2_Witness ==
  /\ Answered
  /\ GateHit
  /\ TransferCall
  /\ Sender = Receiver
  /\ Succeeded
  /\ StateUnchanged

\* The amount of a request in minor units: the n whose decimal n/100 the
\* request carried.
Cents(amount) == CHOOSE n \in Literals : Amount[n] = amount

\* The exact sum and difference of a stored balance and n minor units.
Plus(balance, n) == ExactAdd(balance, IntNum(n))
Minus(balance, n) == ExactAdd(balance, Neg(IntNum(n)))

\* Every wallet but those of ids has the balance and the history it had.
OthersUnchanged(ids) ==
  /\ DOMAIN wallets = DOMAIN Prior.wallets
  /\ DOMAIN transactionHistory = DOMAIN Prior.transactionHistory
  /\ \A w \in DOMAIN wallets \ ids :
       /\ wallets[w] = Prior.wallets[w]
       /\ transactionHistory[w] = Prior.transactionHistory[w]

\* The history of wallet w is what it was, with one more record.
OneAppended(w) ==
  /\ Len(transactionHistory[w]) = Len(Prior.transactionHistory[w]) + 1
  /\ SubSeq(transactionHistory[w], 1, Len(Prior.transactionHistory[w]))
       = Prior.transactionHistory[w]

LastRecord(w) == transactionHistory[w][Len(transactionHistory[w])]

\* A fundWallet call that passes the gate on an existing wallet.
ValidFund ==
  /\ Answered
  /\ FundCall
  /\ ~GateHit
  /\ Has(Prior.wallets, Call.walletId)

\* C3: a fundWallet call that passes the gate on an existing wallet leaves
\* the wallet's balance at what it was plus the amount, returns that balance
\* in its payload, appends one FUND record with the amount to the wallet's
\* history, and changes no other wallet's balance or history.
C3_FundAddsAmount ==
  ValidFund =>
    /\ Succeeded
    /\ wallets[Call.walletId].balance =
         Plus(Prior.wallets[Call.walletId].balance,
              Cents(Call.fundWalletDto.amount))
    /\ Payload.balance = NumDiv(wallets[Call.walletId].balance, 100)
    /\ OneAppended(Call.walletId)
    /\ LastRecord(Call.walletId).action = "FUND"
    /\ LastRecord(Call.walletId).amount = Call.fundWalletDto.amount
    /\ OthersUnchanged({Call.walletId})

\* A transferFunds call that passes the gate, between two different existing
\* wallets of one currency, for an amount not above the sender's balance.
ValidTransfer ==
  /\ Answered
  /\ TransferCall
  /\ ~GateHit
  /\ Sender # Receiver
  /\ Has(Prior.wallets, Sender)
  /\ Has(Prior.wallets, Receiver)
  /\ Prior.wallets[Sender].currency = Prior.wallets[Receiver].currency
  /\ ~Minus(Prior.wallets[Sender].balance, Cents(TransferAmount)).neg

\* C4: a valid transferFunds call leaves the sender's balance at what it
\* was minus the amount and the receiver's at what it was plus the amount,
\* so that their sum is what it was, and changes no third wallet's balance.
C4_TransferConserves ==
  ValidTransfer =>
    /\ Succeeded
    /\ wallets[Sender].balance =
         Minus(Prior.wallets[Sender].balance, Cents(TransferAmount))
    /\ wallets[Receiver].balance =
         Plus(Prior.wallets[Receiver].balance, Cents(TransferAmount))
    /\ ExactAdd(wallets[Sender].balance, wallets[Receiver].balance) =
         ExactAdd(Prior.wallets[Sender].balance,
                  Prior.wallets[Receiver].balance)
    /\ \A w \in DOMAIN wallets \ {Sender, Receiver} :
         wallets[w].balance = Prior.wallets[w].balance

\* A fresh transferFunds call that succeeded.
TransferDone ==
  /\ Answered
  /\ TransferCall
  /\ ~GateHit
  /\ Succeeded

\* The records that carry transfer-group identifier g.
InGroup(g) ==
  {p \in Records(transactionHistory) :
     /\ transactionHistory[p[1]][p[2]].action # "FUND"
     /\ transactionHistory[p[1]][p[2]].transferGroupId = g}

TransferGroups ==
  {transactionHistory[p[1]][p[2]].transferGroupId :
     p \in {q \in Records(transactionHistory) :
              transactionHistory[q[1]][q[2]].action # "FUND"}}

\* C5: a transferFunds call that succeeds appends one TRANSFER_OUT record
\* to the sender's history and one TRANSFER_IN record to the receiver's and
\* nothing to any other; the two carry one transfer-group identifier and
\* the amount, the OUT record names the receiver as counterparty and the IN
\* record the sender.  In every state each transfer-group identifier is on
\* exactly two records, one of each kind, in two different wallets.
C5_PairedRecords ==
  /\ TransferDone =>
       /\ OneAppended(Sender)
       /\ OneAppended(Receiver)
       /\ \A w \in DOMAIN transactionHistory \ {Sender, Receiver} :
            transactionHistory[w] = Prior.transactionHistory[w]
       /\ LastRecord(Sender).action = "TRANSFER_OUT"
       /\ LastRecord(Receiver).action = "TRANSFER_IN"
       /\ LastRecord(Sender).amount = TransferAmount
       /\ LastRecord(Receiver).amount = TransferAmount
       /\ LastRecord(Sender).counterpartyWalletId = Receiver
       /\ LastRecord(Receiver).counterpartyWalletId = Sender
       /\ LastRecord(Sender).transferGroupId
            = LastRecord(Receiver).transferGroupId
  /\ \A g \in TransferGroups :
       /\ Cardinality(InGroup(g)) = 2
       /\ \E p \in InGroup(g), q \in InGroup(g) :
            /\ transactionHistory[p[1]][p[2]].action = "TRANSFER_OUT"
            /\ transactionHistory[q[1]][q[2]].action = "TRANSFER_IN"
            /\ p[1] # q[1]

\* A second transfer has succeeded: two transfer groups are on record.
C5_Witness ==
  /\ TransferDone
  /\ Cardinality(TransferGroups) = 2

\* C6: no wallet's balance is ever below zero.
C6_BalanceNeverNegative ==
  \A w \in DOMAIN wallets : ~wallets[w].balance.neg

\* A transferFunds call that passes the gate, between two different existing
\* wallets.
BetweenTwoWallets ==
  /\ Answered
  /\ TransferCall
  /\ ~GateHit
  /\ Sender # Receiver
  /\ Has(Prior.wallets, Sender)
  /\ Has(Prior.wallets, Receiver)

SameCurrency == Prior.wallets[Sender].currency = Prior.wallets[Receiver].currency

\* The amount is greater than the sender's balance in major units, the
\* balance that getWalletDetails reports.
AboveBalance ==
  NumLess(NumDiv(Prior.wallets[Sender].balance, 100), TransferAmount)

\* Sender and receiver have the balances and the histories they had.
BothUnchanged ==
  /\ wallets[Sender] = Prior.wallets[Sender]
  /\ wallets[Receiver] = Prior.wallets[Receiver]
  /\ transactionHistory[Sender] = Prior.transactionHistory[Sender]
  /\ transactionHistory[Receiver] = Prior.transactionHistory[Receiver]

InsufficientFunds ==
  Exception("BadRequestException", <<"Insufficient balance in sender wallet.">>)

InvalidOperation ==
  Exception("BadRequestException",
            <<"Transfer between different currencies is not supported.">>)

\* C7: a transferFunds call between two different existing wallets of one
\* currency, for an amount greater than the sender's balance, is rejected
\* with the insufficient-balance error and leaves both wallets' balances
\* and histories as they were.
C7_InsufficientRejected ==
  (BetweenTwoWallets /\ SameCurrency /\ AboveBalance) =>
    /\ Failed
    /\ Error = InsufficientFunds
    /\ BothUnchanged

\* A sender that holds 0.07 is asked for 1.00.
C7_Witness ==
  /\ BetweenTwoWallets
  /\ SameCurrency
  /\ AboveBalance
  /\ Prior.wallets[Sender].balance # Zero
  /\ Failed
  /\ Error = InsufficientFunds

\* C8: a transferFunds call between two different existing wallets of
\* different currencies is rejected with the different-currencies error and
\* leaves both wallets' balances and histories as they were, whatever the
\* amount and the sender's balance.
C8_CurrencyMismatchRejected ==
  (BetweenTwoWallets /\ ~SameCurrency) =>
    /\ Failed
    /\ Error = InvalidOperation
    /\ BothUnchanged

\* The currencies differ and the amount is above the sender's balance too.
C8_Witness ==
  /\ BetweenTwoWallets
  /\ ~SameCurrency
  /\ AboveBalance
  /\ Failed
  /\ Error = InvalidOperation

\* C9: a transferFunds call that passes the gate with the sender as the
\* receiver throws ConflictException, whether or not the wallet exists, and
\* changes nothing.
C9_SelfTransferConflict ==
  (Answered /\ TransferCall /\ ~GateHit /\ Sender = Receiver) =>
    /\ Failed
    /\ Error.exception = "ConflictException"
    /\ StateUnchanged

\* A transfer from a wallet that does not exist to itself.
C9_Witness ==
  /\ Answered
  /\ TransferCall
  /\ ~GateHit
  /\ Sender = Receiver
  /\ ~Has(Prior.wallets, Sender)
  /\ Failed
  /\ Error.exception = "ConflictException"

\* The call is sent under a key under which a call has failed and none has
\* succeeded.
AfterFailure ==
  /\ Answered
  /\ Keyed
  /\ Truthy(Call.idempotencyKey)
  /\ Call.idempotencyKey[1] \in failedUnder
  /\ ~Has(firstResult, Call.idempotencyKey[1])

\* The arguments of the call pass every check of its operation.
PreconditionsHold ==
  \/ /\ FundCall
     /\ Has(Prior.wallets, Call.walletId)
  \/ /\ TransferCall
     /\ Sender # Receiver
     /\ Has(Prior.wallets, Sender)
     /\ Has(Prior.wallets, Receiver)
     /\ SameCurrency
     /\ ~AboveBalance

\* The wallet a fundWallet call credits, or a transferFunds call debits.
Target == IF FundCall THEN Call.walletId ELSE Sender

\* C10: a fundWallet or transferFunds call that throws leaves the wallets,
\* the histories and the cache as it found them.  A key under which calls
\* have only failed has no cache entry, so that a later call under it whose
\* arguments pass the checks is executed: it succeeds, appends its record
\* and only then is its result cached.
C10_ErrorsLeaveNoTrace ==
  /\ (Answered /\ Keyed /\ Failed) => StateUnchanged
  /\ \A key \in failedUnder \ DOMAIN firstResult :
       Has(idempotentStore, key) =>
         (Answered /\ Keyed /\ Succeeded /\ Call.idempotencyKey = Some(key))
  /\ (AfterFailure /\ PreconditionsHold) =>
       /\ Succeeded
       /\ ~GateHit
       /\ OneAppended(Target)
       /\ idempotentStore[Call.idempotencyKey[1]] = [body |-> Payload]

\* A transfer sent under a key under which a call was rejected before, and
\* none accepted, is executed.
C10_Witness ==
  /\ AfterFailure
  /\ TransferCall
  /\ Succeeded
  /\ OneAppended(Sender)
  /\ OneAppended(Receiver)

ReadCall == Call.op = "getWalletDetails"

\* The balance that the records of a history account for: each record's
\* amount, in minor units, added or subtracted in the records' order as the
\* service adds and subtracts.
RECURSIVE Replay(_)
Replay(history) ==
  IF history = <<>>
  THEN Zero
  ELSE LET record  == history[Len(history)]
           earlier == Replay(SubSeq(history, 1, Len(history) - 1))
       IN  IF record.action = "TRANSFER_OUT"
           THEN NumSub(earlier, NumMul(record.amount, 100))
           ELSE NumAdd(earlier, NumMul(record.amount, 100))

\* Wallet w holds what its history accounts for, and each transfer record
\* of its history has its other half in the counterparty's history.
WhollyApplied(w) ==
  /\ wallets[w].balance = Replay(transactionHistory[w])
  /\ \A i \in 1..Len(transactionHistory[w]) :
       LET record == transactionHistory[w][i]
       IN  record.action # "FUND" =>
             \E j \in 1..Len(transactionHistory[record.counterpartyWalletId]) :
               LET other == transactionHistory[record.counterpartyWalletId][j]
               IN  /\ other.action # "FUND"
                   /\ other.action # record.action
                   /\ other.transferGroupId = record.transferGroupId
                   /\ other.counterpartyWalletId = w
                   /\ other.amount = record.amount

\* C11: when getWalletDetails answers, no transfer is half applied: the
\* balance it reports is the one the history it reports accounts for, every
\* transfer record in that history has its other half on record, and the
\* counterparty's balance is the one its history accounts for.
C11_NoHalfAppliedRead ==
  (Answered /\ ReadCall /\ Succeeded) =>
    /\ Payload.balance = NumDiv(Replay(Payload.transactionHistory), 100)
    /\ Payload.transactionHistory = transactionHistory[Call.walletId]
    /\ WhollyApplied(Call.walletId)
    /\ \A i \in 1..Len(Payload.transactionHistory) :
         Payload.transactionHistory[i].action # "FUND" =>
           WhollyApplied(Payload.transactionHistory[i].counterpartyWalletId)

\* getWalletDetails answers for a wallet that a transfer has debited.
C11_Witness ==
  /\ Answered
  /\ ReadCall
  /\ Succeeded
  /\ \E i \in 1..Len(Payload.transactionHistory) :
       Payload.transactionHistory[i].action = "TRANSFER_OUT"

\* C12: fundWallet and transferFunds calls run one at a time, from the
\* checks to the last write: at most one call has begun and not returned,
\* and it is the call in hand; whenever none is running every wallet holds
\* what its history accounts for; and no balance goes below zero, so of two
\* transfers that the sender can afford singly but not together the second
\* is rejected.
C12_MutationsSerialized ==
  /\ Len(running) <= 1
  /\ running # <<>> =>
       /\ request # Undefined
       /\ response = Undefined
       /\ Call.op = running[1].op
       /\ Call.idempotencyKey = running[1].idempotencyKey
  /\ running = <<>> => \A w \in DOMAIN wallets : WhollyApplied(w)
  /\ \A w \in DOMAIN wallets : ~wallets[w].balance.neg

\* A sender funded with 1.00 that has transferred 1.00 is asked for 1.00
\* again, and the call is rejected.
C12_Witness ==
  /\ Answered
  /\ TransferCall
  /\ ~GateHit
  /\ Failed
  /\ Error = InsufficientFunds
  /\ Has(Prior.wallets, Sender)
  /\ \E i \in 1..Len(Prior.transactionHistory[Sender]) :
       /\ Prior.transactionHistory[Sender][i].action = "TRANSFER_OUT"
       /\ Prior.transactionHistory[Sender][i].amount = TransferAmount
  /\ Replay(Prior.transactionHistory[Sender]) = Zero

\* C13: getWalletDetails for an existing wallet returns its id, its
\* currency, its balance in major units and its whole history in the order
\* of insertion, the empty sequence when nothing has been recorded; for an
\* unknown wallet it throws NotFoundException; either way wallets,
\* histories and cache are as they were, and the outcome is the same
\* whatever the cache holds.
C13_ReadOnlyDetails ==
  (Answered /\ ReadCall) =>
    /\ StateUnchanged
    /\ IF Has(Prior.wallets, Call.walletId)
       THEN response =
              Returned([id       |-> Call.walletId,
                        currency |-> Prior.wallets[Call.walletId].currency,
                        balance  |->
                          NumDiv(Prior.wallets[Call.walletId].balance, 100),
                        transactionHistory |->
                          Prior.transactionHistory[Call.walletId]])
       ELSE /\ Failed
            /\ Error.exception = "NotFoundException"

\* The details of a wallet with two records are fetched while the cache
\* holds an entry.
C13_Witness ==
  /\ Answered
  /\ ReadCall
  /\ Succeeded
  /\ Len(Payload.transactionHistory) = 2
  /\ Payload.balance # Zero
  /\ idempotentStore # EmptyMap
  /\ StateUnchanged

CreateCall == Call.op = "createWallet"

\* C14: createWallet succeeds and adds one wallet, under an id that no
\* wallet had, with balance 0, an empty history and the requested currency,
\* USD when none is requested; it returns that wallet and leaves every
\* other wallet, every other history and the cache as they were.
C14_CreateAddsOneWallet ==
  (Answered /\ CreateCall) =>
    /\ Succeeded
    /\ ~Has(Prior.wallets, Payload.id)
    /\ DOMAIN wallets = DOMAIN Prior.wallets \cup {Payload.id}
    /\ DOMAIN transactionHistory =
         DOMAIN Prior.transactionHistory \cup {Payload.id}
    /\ wallets[Payload.id] = Payload
    /\ Payload.balance = Zero
    /\ Payload.currency \in Currency
    /\ Payload.currency =
         IF Call.createWalletDto.currency = Undefined
         THEN "USD"
         ELSE Call.createWalletDto.currency[1]
    /\ transactionHistory[Payload.id] = <<>>
    /\ \A w \in DOMAIN Prior.wallets :
         /\ wallets[w] = Prior.wallets[w]
         /\ transactionHistory[w] = Prior.transactionHistory[w]
    /\ idempotentStore = Prior.idempotentStore

\* A wallet in NGN is created when a wallet with a record and a cache entry
\* exist.
C14_Witness ==
  /\ Answered
  /\ CreateCall
  /\ Succeeded
  /\ Payload.currency = "NGN"
  /\ Prior.idempotentStore # EmptyMap
  /\ \E w \in DOMAIN Prior.wallets : Prior.transactionHistory[w] # <<>>

\* A fundWallet or transferFunds call without a key whose arguments pass
\* every check.
ValidWithoutKey ==
  /\ Answered
  /\ Keyed
  /\ ~Truthy(Call.idempotencyKey)
  /\ PreconditionsHold

\* The minor units the service adds and subtracts for an amount.
Delta(amount) == NumMul(amount, 100)

\* C15: a fundWallet or transferFunds call without a key whose arguments
\* pass every check is executed, whatever calls went before it: it
\* succeeds, moves the balance (both balances, for a transfer) by the
\* amount as the service computes it, appends its record (its pair of
\* records) and leaves the cache as it was.
C15_NoKeyNoDeduplication ==
  ValidWithoutKey =>
    /\ Succeeded
    /\ idempotentStore = Prior.idempotentStore
    /\ FundCall =>
         /\ wallets[Call.walletId].balance =
              NumAdd(Prior.wallets[Call.walletId].balance,
                     Delta(Call.fundWalletDto.amount))
         /\ OneAppended(Call.walletId)
         /\ LastRecord(Call.walletId).action = "FUND"
    /\ TransferCall =>
         /\ wallets[Sender].balance =
              NumSub(Prior.wallets[Sender].balance, Delta(TransferAmount))
         /\ wallets[Receiver].balance =
              NumAdd(Prior.wallets[Receiver].balance, Delta(TransferAmount))
         /\ OneAppended(Sender)
         /\ OneAppended(Receiver)
         /\ LastRecord(Sender).action = "TRANSFER_OUT"
         /\ LastRecord(Receiver).action = "TRANSFER_IN"

\* The same fundWallet call is made without a key a second time, and the
\* wallet has two equal records and twice the amount.
C15_Witness ==
  /\ ValidWithoutKey
  /\ FundCall
  /\ Succeeded
  /\ Len(transactionHistory[Call.walletId]) = 2
  /\ transactionHistory[Call.walletId][1].amount = Call.fundWalletDto.amount
  /\ transactionHistory[Call.walletId][2].amount = Call.fundWalletDto.amount
  /\ transactionHistory[Call.walletId][1].action = "FUND"
  /\ wallets[Call.walletId].balance =
       NumAdd(Delta(Call.fundWalletDto.amount), Delta(Call.fundWalletDto.amount))
  /\ idempotentStore = EmptyMap

\* The failure condition of a transfer of amount from s to r in the current
\* state, by the names the four conditions have; "none" when it has none.
Condition(s, r, amount) ==
  IF s = r THEN "Conflict"
  ELSE IF ~Has(wallets, s) \/ ~Has(wallets, r) THEN "NotFound"
  ELSE IF wallets[s].currency # wallets[r].currency THEN "InvalidOperation"
  ELSE IF NumLess(NumDiv(wallets[s].balance, 100), amount)
  THEN "InsufficientFunds"
  ELSE "none"

\* The kind of the exception that the validation checks throw for it.
Kind(s, r, amount) == validationChecks(s, r, amount)[1].exception

Transfers ==
  (DOMAIN wallets \cup {UnknownId}) \X (DOMAIN wallets \cup {UnknownId})
    \X {Amount[n] : n \in Requests.amounts}

\* C16: two transfers that fail under different conditions fail with
\* exceptions of different kinds, so that the kind alone tells Conflict,
\* NotFound, InvalidOperation and InsufficientFunds apart.
C16_KindTellsCondition ==
  \A t \in Transfers, u \in Transfers :
    LET c == Condition(t[1], t[2], t[3])
        d == Condition(u[1], u[2], u[3])
    IN  (c # "none" /\ d # "none" /\ c # d) =>
          Kind(t[1], t[2], t[3]) # Kind(u[1], u[2], u[3])

SelfTransfer ==
  Exception("ConflictException", <<"Cannot transfer funds to the same wallet.">>)

SenderNotFound == Exception("NotFoundException", <<"Sender wallet not found.">>)

ReceiverNotFound ==
  Exception("NotFoundException", <<"Receiver wallet not found.">>)

\* C17: a transferFunds call that passes the gate reports the first of its
\* preconditions that fails, in the order self-transfer, missing sender,
\* missing receiver, different currencies, insufficient balance, and
\* succeeds when none fails.
C17_ChecksInOrder ==
  (Answered /\ TransferCall /\ ~GateHit) =>
    IF Sender = Receiver THEN response = Threw(SelfTransfer)
    ELSE IF ~Has(Prior.wallets, Sender) THEN response = Threw(SenderNotFound)
    ELSE IF ~Has(Prior.wallets, Receiver)
    THEN response = Threw(ReceiverNotFound)
    ELSE IF ~SameCurrency THEN response = Threw(InvalidOperation)
    ELSE IF AboveBalance THEN response = Threw(InsufficientFunds)
    ELSE Succeeded

\* Neither the sender nor the receiver exists, and the sender is the one
\* reported.
C17_Witness ==
  /\ Answered
  /\ TransferCall
  /\ Sender # Receiver
  /\ ~Has(Prior.wallets, Sender)
  /\ ~Has(Prior.wallets, Receiver)
  /\ response = Threw(SenderNotFound)

\* A call under a key that an earlier call has succeeded under.
RepeatedKey ==
  /\ Answered
  /\ Keyed
  /\ Truthy(Call.idempotencyKey)
  /\ Has(firstResult, Call.idempotencyKey[1])

\* C18: no call removes or changes a cache entry that it found; the entry
\* of a key holds the payload of the first call that succeeded under the
\* key; and every later call under the key returns that payload, whatever
\* has happened to the wallets since.
C18_CacheEntriesKept ==
  /\ Answered =>
       \A key \in DOMAIN Prior.idempotentStore :
         /\ Has(idempotentStore, key)
         /\ idempotentStore[key] = Prior.idempotentStore[key]
  /\ \A key \in DOMAIN firstResult :
       /\ Has(idempotentStore, key)
       /\ idempotentStore[key] = [body |-> firstResult[key].result]
  /\ RepeatedKey => response = Returned(firstResult[Call.idempotencyKey[1]].result)

\* A fundWallet call is repeated under its key after the wallet's balance
\* has changed, and returns the balance of the first time.
C18_Witness ==
  /\ RepeatedKey
  /\ FundCall
  /\ Succeeded
  /\ Payload = firstResult[Call.idempotencyKey[1]].result
  /\ Has(wallets, Payload.id)
  /\ Payload.balance # NumDiv(wallets[Payload.id].balance, 100)

\* The ranks of the identifiers of the records in every history.
RecordRanks(histories) ==
  UNION {{histories[w][i].id[2] : i \in DOMAIN histories[w]} :
           w \in DOMAIN histories}

\* C19: across every step, each wallet's history before the step is a
\* prefix of its history after the step, and every record the step appends
\* was made after every record that was in any history before the step.
C19_HistoriesAppendOnly ==
  [][\A w \in DOMAIN transactionHistory :
       /\ Has(transactionHistory', w)
       /\ Len(transactionHistory[w]) <= Len(transactionHistory'[w])
       /\ SubSeq(transactionHistory'[w], 1, Len(transactionHistory[w]))
            = transactionHistory[w]
       /\ \A i \in Len(transactionHistory[w]) + 1 ..
                     Len(transactionHistory'[w]) :
            \A rank \in RecordRanks(transactionHistory) :
              rank < transactionHistory'[w][i].id[2]]_vars

\* A call has appended a second record to a history: the first record is
\* where it was and the second was made after it.
C19_Witness ==
  /\ Answered
  /\ Succeeded
  /\ \E w \in DOMAIN Prior.transactionHistory :
       /\ Len(Prior.transactionHistory[w]) = 1
       /\ Len(transactionHistory[w]) = 2
       /\ transactionHistory[w][1] = Prior.transactionHistory[w][1]
       /\ transactionHistory[w][1].id[2] < transactionHistory[w][2].id[2]

\* The number has no fractional part.
Whole(a) == \A i \in 1..FracLimbs : a.mag[i] = 0

\* C20: every stored balance is a whole number of minor units, and the
\* amount times 100 that a fundWallet or transferFunds call applies is a
\* whole number.
C20_WholeMinorUnits ==
  /\ \A w \in DOMAIN wallets : Whole(wallets[w].balance)
  /\ ValidFund => Whole(NumMul(Call.fundWalletDto.amount, 100))
  /\ ValidTransfer /\ Succeeded => Whole(NumMul(TransferAmount, 100))

\* A transferFunds call that passes the gate, between two different existing
\* wallets of one currency, for the sender's whole balance in major units.
WholeBalance ==
  /\ BetweenTwoWallets
  /\ SameCurrency
  /\ TransferAmount = NumDiv(Prior.wallets[Sender].balance, 100)

\* A transferFunds call that passes the gate, between two different existing
\* wallets of one currency, from a sender that holds nothing.
FromEmptySender ==
  /\ BetweenTwoWallets
  /\ SameCurrency
  /\ Prior.wallets[Sender].balance = Zero

\* C21: a transferFunds call for the sender's whole balance succeeds and
\* leaves the sender's balance at zero, and a transferFunds call from a
\* sender whose balance is zero is rejected with the insufficient-balance
\* error.
C21_WholeBalanceTransfer ==
  /\ WholeBalance =>
       /\ Succeeded
       /\ wallets[Sender].balance = Zero
  /\ FromEmptySender =>
       /\ Failed
       /\ Error = InsufficientFunds

\* What the records of a history sum to, in minor units: the FUND and
\* TRANSFER_IN amounts less the TRANSFER_OUT amounts.
RECURSIVE Ledger(_)
Ledger(history) ==
  IF history = <<>>
  THEN 0
  ELSE LET record  == history[Len(history)]
           earlier == Ledger(SubSeq(history, 1, Len(history) - 1))
       IN  IF record.action = "TRANSFER_OUT"
           THEN earlier - Cents(record.amount)
           ELSE earlier + Cents(record.amount)

\* What the FUND records of a history sum to, in minor units.
RECURSIVE Funded(_)
Funded(history) ==
  IF history = <<>>
  THEN 0
  ELSE LET record  == history[Len(history)]
           earlier == Funded(SubSeq(history, 1, Len(history) - 1))
       IN  IF record.action = "FUND"
           THEN earlier + Cents(record.amount)
           ELSE earlier

\* The number n as a balance.
MinorUnits(n) == IF n < 0 THEN Neg(IntNum(-n)) ELSE IntNum(n)

\* The exact sum of the balances of the wallets of ids.
RECURSIVE TotalBalance(_)
TotalBalance(ids) ==
  IF ids = {}
  THEN Zero
  ELSE LET w == CHOOSE id \in ids : TRUE
       IN  ExactAdd(wallets[w].balance, TotalBalance(ids \ {w}))

\* What the FUND records of the wallets of ids sum to, in minor units.
RECURSIVE TotalFunded(_)
TotalFunded(ids) ==
  IF ids = {}
  THEN 0
  ELSE LET w == CHOOSE id \in ids : TRUE
       IN  Funded(transactionHistory[w]) + TotalFunded(ids \ {w})

\* C22: every wallet's balance is 100 times what the records of its history
\* sum to (FUND and TRANSFER_IN amounts less TRANSFER_OUT amounts), and the
\* balances of all wallets sum to 100 times what all FUND records sum to.
C22_LedgerConsistent ==
  /\ \A w \in DOMAIN wallets :
       wallets[w].balance = MinorUnits(Ledger(transactionHistory[w]))
  /\ TotalBalance(DOMAIN wallets) = MinorUnits(TotalFunded(DOMAIN wallets))

\* The first call that succeeded under the key of the call in hand.
First == firstResult[Call.idempotencyKey[1]]

\* C23: a fundWallet or transferFunds call under a key that an earlier call
\* has succeeded under, whether or not it is the same operation with the
\* same arguments, returns the payload of that earlier call and leaves
\* wallets, histories and cache as they were.
C23_SharedKeyNamespace ==
  (RepeatedKey /\ First.request # Call) =>
    /\ response = Returned(First.result)
    /\ StateUnchanged

\* A transfer that would have gone through is sent under the key of an
\* earlier funding: it gets the funding's payload and moves nothing.
C23_Witness ==
  /\ RepeatedKey
  /\ TransferCall
  /\ First.request.op = "fundWallet"
  /\ Sender # Receiver
  /\ Has(wallets, Sender)
  /\ Has(wallets, Receiver)
  /\ SameCurrency
  /\ ~AboveBalance
  /\ Payload = First.result
  /\ "sender" \notin DOMAIN Payload
  /\ Payload.id = First.request.walletId
  /\ StateUnchanged

\* A fundWallet or transferFunds call whose key is the empty string.
EmptyKey ==
  /\ Answered
  /\ Keyed
  /\ Call.idempotencyKey = Some("")

\* C24: the cache never has an entry under the empty string, and a
\* fundWallet or transferFunds call whose key is the empty string leaves the
\* cache as it was and runs: on an existing wallet, fundWallet adds the
\* amount and appends a record, and between two different existing wallets
\* for an amount within the sender's balance, transferFunds appends a record
\* to each history, however often the call has been made before.
C24_EmptyKeyIsNoKey ==
  /\ ~Has(idempotentStore, "")
  /\ EmptyKey =>
       /\ ~GateHit
       /\ idempotentStore = Prior.idempotentStore
  /\ (EmptyKey /\ FundCall /\ Has(Prior.wallets, Call.walletId)) =>
       /\ Succeeded
       /\ OneAppended(Call.walletId)
       /\ wallets[Call.walletId].balance =
            NumAdd(Prior.wallets[Call.walletId].balance,
                   NumMul(Call.fundWalletDto.amount, 100))
  /\ (EmptyKey /\ BetweenTwoWallets /\ SameCurrency /\ ~AboveBalance) =>
       /\ Succeeded
       /\ OneAppended(Sender)
       /\ OneAppended(Receiver)

\* Every call so far carried the empty key, for nothing is cached, and
\* fundWallet has run for the second time on a wallet, with the same
\* amount: the wallet holds both fundings.
C24_Witness ==
  /\ EmptyKey
  /\ FundCall
  /\ Succeeded
  /\ idempotentStore = EmptyMap
  /\ Len(transactionHistory[Call.walletId]) = 2
  /\ transactionHistory[Call.walletId][1].action = "FUND"
  /\ transactionHistory[Call.walletId][1].amount = Call.fundWalletDto.amount
  /\ LastRecord(Call.walletId).action = "FUND"
  /\ wallets[Call.walletId].balance = IntNum(200)

====
